---- MODULE Spec2Model ----
(***************************************************************************)
(* Model of nnet_rbm.py: the data partitioning (dataset_split), the        *)
(* control-set generation (random_ngrams) and the two training callbacks   *)
(* of main (mnb_callback, epoch_callback).                                 *)
(***************************************************************************)
EXTENDS Integers, Sequences, FiniteSets, TLC

(***************************************************************************)
(* Python floats are IEEE-754 binary64.  TLC integers are 32 bits wide, so *)
(* a mantissa is kept as a sequence of limbs of LimbBits bits, least       *)
(* significant limb first.  A float is [neg, m, e] with value              *)
(* (-1)^neg * m * 2^e, where m has exactly MantBits bits (top bit 1) or is *)
(* empty for zero.  Exponent range limits (subnormals, infinities) are     *)
(* never approached by the values computed here and are not modelled.      *)
(***************************************************************************)
MantBits == 53
LimbBits == 13
Base == 2^LimbBits

Max(a, b) == IF a >= b THEN a ELSE b
Min(a, b) == IF a <= b THEN a ELSE b

RECURSIVE Nat2Limbs(_)
Nat2Limbs(n) == IF n = 0 THEN <<>> ELSE <<n % Base>> \o Nat2Limbs(n \div Base)

RECURSIVE Limbs2Nat(_)
Limbs2Nat(a) == IF a = <<>> THEN 0 ELSE a[1] + Base * Limbs2Nat(Tail(a))

\* drop the high-order zero limbs
RECURSIVE Trim(_)
Trim(a) ==
    IF a = <<>> THEN <<>>
    ELSE IF a[Len(a)] = 0 THEN Trim(SubSeq(a, 1, Len(a) - 1)) ELSE a

LimbAt(a, i) == IF i >= 1 /\ i <= Len(a) THEN a[i] ELSE 0

\* a + b + c, from limb i upwards
RECURSIVE BAddFrom(_, _, _, _)
BAddFrom(a, b, i, c) ==
    IF i > Max(Len(a), Len(b))
    THEN (IF c > 0 THEN <<c>> ELSE <<>>)
    ELSE LET s == LimbAt(a, i) + LimbAt(b, i) + c
         IN  <<s % Base>> \o BAddFrom(a, b, i + 1, s \div Base)

BAdd(a, b) == Trim(BAddFrom(a, b, 1, 0))

\* a - b for a >= b, from limb i upwards with borrow c
RECURSIVE BSubFrom(_, _, _, _)
BSubFrom(a, b, i, c) ==
    IF i > Len(a) THEN <<>>
    ELSE LET s == LimbAt(a, i) - LimbAt(b, i) - c
         IN  <<s % Base>> \o BSubFrom(a, b, i + 1, IF s < 0 THEN 1 ELSE 0)

BSub(a, b) == Trim(BSubFrom(a, b, 1, 0))

\* -1, 0, 1 as a < b, a = b, a > b (both trimmed), compared from the top limb
RECURSIVE BCmpFrom(_, _, _)
BCmpFrom(a, b, i) ==
    IF i = 0 THEN 0
    ELSE IF a[i] > b[i] THEN 1
    ELSE IF a[i] < b[i] THEN -1
    ELSE BCmpFrom(a, b, i - 1)

BCmp(a, b) ==
    IF Len(a) > Len(b) THEN 1
    ELSE IF Len(a) < Len(b) THEN -1
    ELSE BCmpFrom(a, b, Len(a))

\* a * k for 0 <= k < Base, from limb i upwards with carry c
RECURSIVE BMulSmallFrom(_, _, _, _)
BMulSmallFrom(a, k, i, c) ==
    IF i > Len(a)
    THEN (IF c > 0 THEN <<c>> ELSE <<>>)
    ELSE LET s == a[i] * k + c
         IN  <<s % Base>> \o BMulSmallFrom(a, k, i + 1, s \div Base)

BMulSmall(a, k) == Trim(BMulSmallFrom(a, k, 1, 0))

ShiftLimbs(a, k) == IF a = <<>> THEN <<>> ELSE [i \in 1..k |-> 0] \o a

\* schoolbook product
RECURSIVE BMul(_, _)
BMul(a, b) ==
    IF b = <<>> \/ a = <<>> THEN <<>>
    ELSE BAdd(BMulSmall(a, b[1]), ShiftLimbs(BMul(a, Tail(b)), 1))

\* long division by a small positive integer d, from the top limb down:
\* [q |-> quotient, r |-> remainder]
RECURSIVE BDivFrom(_, _, _, _)
BDivFrom(a, d, i, r) ==
    IF i = 0 THEN [q |-> <<>>, r |-> r]
    ELSE LET cur  == r * Base + a[i]
             rest == BDivFrom(a, d, i - 1, cur % d)
         IN  [q |-> Append(rest.q, cur \div d), r |-> rest.r]

BDiv(a, d) == LET qr == BDivFrom(a, d, Len(a), 0) IN [q |-> Trim(qr.q), r |-> qr.r]

\* number of bits of a limb / of a trimmed limb sequence
LimbLen(l) == IF l = 0 THEN 0 ELSE CHOOSE k \in 1..LimbBits : 2^(k - 1) <= l /\ l < 2^k
BitLen(a) == IF a = <<>> THEN 0 ELSE LimbBits * (Len(a) - 1) + LimbLen(a[Len(a)])

\* a * 2^s and floor(a / 2^s)
ShiftLeft(a, s) == BMulSmall(ShiftLimbs(a, s \div LimbBits), 2^(s % LimbBits))
ShiftRight(a, s) ==
    IF s \div LimbBits >= Len(a) THEN <<>>
    ELSE BDiv(SubSeq(a, (s \div LimbBits) + 1, Len(a)), 2^(s % LimbBits)).q

\* bit i (from 0) of a; whether any of the bits 0..i-1 of a is set
TestBit(a, i) == (LimbAt(a, (i \div LimbBits) + 1) \div 2^(i % LimbBits)) % 2
LowNonzero(a, i) ==
    \/ \E j \in 1..Min(i \div LimbBits, Len(a)) : a[j] # 0
    \/ LimbAt(a, (i \div LimbBits) + 1) % 2^(i % LimbBits) # 0

FZero == [neg |-> FALSE, m |-> <<>>, e |-> 0]

\* round-half-to-even of (-1)^neg * (n + sticky) * 2^e to MantBits bits,
\* where sticky says that a nonzero amount below the lowest bit was dropped
Round(neg, n0, e, sticky) ==
    LET n == Trim(n0)
        L == BitLen(n)
    IN  IF L = 0 THEN FZero
        ELSE IF L <= MantBits
        THEN [neg |-> neg, m |-> ShiftLeft(n, MantBits - L), e |-> e - (MantBits - L)]
        ELSE LET drop  == L - MantBits
                 kept  == ShiftRight(n, drop)
                 guard == TestBit(n, drop - 1)
                 rest  == sticky \/ LowNonzero(n, drop - 1)
                 up    == guard = 1 /\ (rest \/ kept[1] % 2 = 1)
                 k2    == IF up THEN BAdd(kept, <<1>>) ELSE kept
             IN  IF BitLen(k2) > MantBits
                 THEN [neg |-> neg, m |-> ShiftRight(k2, 1), e |-> e + drop + 1]
                 ELSE [neg |-> neg, m |-> k2, e |-> e + drop]

\* the float a decimal literal num/den denotes (num an integer, den > 0):
\* the nearest binary64, ties to even
LitShift == 64
FloatOfRatio(num, den) ==
    LET a == IF num < 0 THEN -num ELSE num
        d == BDiv(ShiftLeft(Nat2Limbs(a), LitShift), den)
    IN  Round(num < 0, d.q, -LitShift, d.r # 0)

\* float(n) for a Python int n
FloatOfInt(n) == Round(n < 0, Nat2Limbs(IF n < 0 THEN -n ELSE n), 0, FALSE)

\* magnitude of a brought to the common exponent Min(a.e, b.e)
AlignedM(a, b) == ShiftLeft(a.m, a.e - Min(a.e, b.e))

\* -1, 0, 1 as |a| < |b|, |a| = |b|, |a| > |b|
MagCmp(a, b) ==
    IF a.m = <<>> /\ b.m = <<>> THEN 0
    ELSE IF a.m = <<>> THEN -1
    ELSE IF b.m = <<>> THEN 1
    ELSE BCmp(AlignedM(a, b), AlignedM(b, a))

\* a < b
FLess(a, b) ==
    IF a.m = <<>> /\ b.m = <<>> THEN FALSE
    ELSE IF a.m = <<>> THEN ~b.neg
    ELSE IF b.m = <<>> THEN a.neg
    ELSE IF a.neg /\ ~b.neg THEN TRUE
    ELSE IF ~a.neg /\ b.neg THEN FALSE
    ELSE IF a.neg THEN MagCmp(a, b) = 1
    ELSE MagCmp(a, b) = -1

FNeg(a) == IF a.m = <<>> THEN a ELSE [a EXCEPT !.neg = ~a.neg]

\* a + b, correctly rounded
FAdd(a, b) ==
    IF a.m = <<>> THEN b
    ELSE IF b.m = <<>> THEN a
    ELSE LET ee == Min(a.e, b.e)
             ma == AlignedM(a, b)
             mb == AlignedM(b, a)
         IN  IF a.neg = b.neg THEN Round(a.neg, BAdd(ma, mb), ee, FALSE)
             ELSE IF BCmp(ma, mb) >= 0 THEN Round(a.neg, BSub(ma, mb), ee, FALSE)
             ELSE Round(b.neg, BSub(mb, ma), ee, FALSE)

\* a - b, correctly rounded
FSub(a, b) == FAdd(a, FNeg(b))

\* a * b, correctly rounded
FMul(a, b) ==
    IF a.m = <<>> \/ b.m = <<>> THEN FZero
    ELSE Round(a.neg # b.neg, BMul(a.m, b.m), a.e + b.e, FALSE)

\* int(f): truncation towards zero (for |f| < 2^31)
IntOfFloat(f) ==
    IF f.m = <<>> THEN 0
    ELSE LET mag == IF f.e >= 0 THEN Limbs2Nat(ShiftLeft(f.m, f.e))
                    ELSE Limbs2Nat(ShiftRight(f.m, -f.e))
         IN  IF f.neg THEN -mag ELSE mag

(***************************************************************************)
(* State of one run.                                                       *)
(***************************************************************************)
VARIABLES
    pc,                \* where the caller is: "split", "perturb", "train", "done", "aborted"
    err,               \* the exception that ended the run, or "none"
    x,                 \* the ngrams matrix: a sequence of rows, a row a sequence of terms
    ret,               \* <<i1, i2>> of the slices the last dataset_split returned, or <<>>
    args,              \* [validation, test, rng] of the last dataset_split call
    calls,             \* number of dataset_split calls made on x
    drawn,             \* the permutations RandomState streams have produced so far
    ngrams_in,         \* the matrix handed to random_ngrams
    rargs,             \* [all, dist, shuffle, vocab_size] of the random_ngrams call
    x_valid_r,         \* what random_ngrams returned (the control set)
    q_groups,          \* per candidate group, its number of candidates
    answers,           \* per candidate group, the index of the correct candidate
    epochs,            \* configured number of epochs
    mnb_size,          \* minibatch size
    epoch,             \* epoch being trained
    mnb,               \* next minibatch of the epoch
    x_valid_ll,        \* held-out log-likelihood series
    x_valid_ll_ratio,  \* log-likelihood-ratio series
    sent_challenge,    \* sentence-completion accuracy series
    qg_log_lik,        \* the candidate scores of the last epoch_callback
    predictions        \* the predictions of the last epoch_callback

vars == <<pc, err, x, ret, args, calls, drawn, ngrams_in, rargs, x_valid_r,
          q_groups, answers, epochs, mnb_size, epoch, mnb,
          x_valid_ll, x_valid_ll_ratio, sent_challenge, qg_log_lik, predictions>>

splitVars == <<x, ret, args, calls, drawn>>
perturbVars == <<ngrams_in, rargs, x_valid_r>>
trainVars == <<q_groups, answers, epochs, mnb_size, epoch, mnb,
               x_valid_ll, x_valid_ll_ratio, sent_challenge, qg_log_lik, predictions>>

(***************************************************************************)
(* Bounds of the inputs                                                    *)
(***************************************************************************)
MaxRows == 3
MaxPRows == 2
MaxGroups == 2
MaxEpochs == 2
VocabSize == 2
Seed == 12345
FracNums == {0, 5, 50}

(***************************************************************************)
(* Python sequences                                                        *)
(***************************************************************************)
\* a[lo:hi] with Python's treatment of negative and out-of-range bounds
PySlice(a, lo, hi) ==
    LET n  == Len(a)
        cl(i) == IF i < 0 THEN Max(i + n, 0) ELSE Min(i, n)
    IN  IF cl(lo) >= cl(hi) THEN <<>> ELSE SubSeq(a, cl(lo) + 1, cl(hi))

\* the permutations of 1..n
PermsOf(n) == {p \in [1..n -> 1..n] : \A i, j \in 1..n : p[i] = p[j] => i = j}

\* a shuffle that fills the sequence with one of its elements
PermutedDup(a, p) == [i \in 1..Len(a) |-> a[p[1]]]

\* the sequence a with its elements rearranged by the permutation p
Permuted(a, p) == [i \in 1..Len(a) |-> a[p[i]]]

(***************************************************************************)
(* dataset_split                                                           *)
(***************************************************************************)
\* fractions are written as decimal literals k/FracDen
FracDen == 100
Frac(k) == FloatOfRatio(k, FracDen)
One == FloatOfInt(1)

\* the asserts without the check of the signs
SplitPreSumOnly(validation, test) == FLess(FAdd(validation, test), One)

\* the asserts of dataset_split
SplitPre(validation, test) ==
    /\ FLess(FZero, validation) /\ FLess(FZero, test)
    /\ FLess(FAdd(validation, test), One)

\* <<i1, i2>> for a dataset of n rows
SplitIndices(n, validation, test) ==
    << IntOfFloat(FMul(FloatOfInt(n), FSub(FSub(One, validation), test))),
       IntOfFloat(FMul(FloatOfInt(n), FSub(One, test))) >>

\* SplitPre and SplitIndices for the calls that occur (@@ has the table
\* evaluated once instead of at every call)
SplitTable == [n \in 0..MaxRows, vn \in FracNums, tn \in FracNums |->
                 [pre |-> SplitPre(Frac(vn), Frac(tn)),
                  idx |-> SplitIndices(n, Frac(vn), Frac(tn))]] @@ <<>>

\* the three slices dataset_split returned: views of x, not copies
x_train == IF ret = <<>> THEN <<>> ELSE PySlice(x, 0, ret[1])
x_valid == IF ret = <<>> THEN <<>> ELSE PySlice(x, ret[1], ret[2])
x_test  == IF ret = <<>> THEN <<>> ELSE PySlice(x, ret[2], Len(x))

\* rng.shuffle(x) with the permutation p the random source produces.
\* RandomState(seed) is a fixed stream: what it produces for a length is a
\* function of <<seed, length>>, unknown until first drawn and the same
\* ever after.  A fresh RandomState() and a RandomState object the caller
\* passes in (used as is, at whatever point its stream has reached) may
\* produce any permutation.
RngKey(rng) == <<rng.seed, Len(x)>>

RngShuffle(rng, p) ==
    /\ p \in PermsOf(Len(x))
    /\ IF rng.kind = "int"
       THEN /\ RngKey(rng) \in DOMAIN drawn => p = drawn[RngKey(rng)]
            /\ drawn' = (RngKey(rng) :> p) @@ drawn
       ELSE UNCHANGED drawn
    /\ x' = Permuted(x, p)

\* dataset_split(x, vn/FracDen, tn/FracDen, rng)
dataset_split(vn, tn, rng) ==
    /\ pc = "split"
    /\ calls' = calls + 1
    /\ args' = [validation |-> vn, test |-> tn, rng |-> rng]
    /\ IF ~SplitTable[Len(x), vn, tn].pre
       THEN /\ err' = "AssertionError"
            /\ pc' = "aborted"
            /\ ret' = <<>>
            /\ UNCHANGED <<x, drawn>>
       ELSE /\ ret' = SplitTable[Len(x), vn, tn].idx
            /\ \E p \in PermsOf(Len(x)) : RngShuffle(rng, p)
            /\ UNCHANGED <<pc, err>>
    /\ UNCHANGED <<perturbVars, trainVars>>

(***************************************************************************)
(* random_ngrams                                                           *)
(***************************************************************************)
UInt16 == 65536

Column(m, c) == [i \in 1..Len(m) |-> m[i][c]]
SetColumn(m, c, vals) == [i \in 1..Len(m) |-> [m[i] EXCEPT ![c] = vals[i]]]
NCols(m) == IF m = <<>> THEN 0 ELSE Len(m[1])

\* np.asarray(ngrams): the array itself
NpAsArray(a) == [data |-> a, fresh |-> FALSE]

\* np.array(ngrams): a new array holding the same values
NpArray(a) == [data |-> a, fresh |-> TRUE]

\* the values np.random.choice(vocab_size, ..., p=dist) can return: every
\* index for dist=None, else the indices dist gives a non-zero probability
\* (dist is modelled by that set, its support), then .astype('uint16')
ChoiceValues(vocab_size, dist) ==
    {v % UInt16 : v \in IF dist.kind = "None" THEN 0..(vocab_size - 1) ELSE dist.support}

\* the terms the loop of random_ngrams visits
Terms(ngrams, all) == IF ngrams = <<>> THEN {} ELSE 1..(IF all THEN NCols(ngrams) ELSE 1)

\* a loop body whose shuffle repeats one value of the column
PerturbTermResample(r, term, shuffle, ch) ==
    IF shuffle THEN SetColumn(r, term, [i \in 1..Len(r) |-> Column(r, term)[ch[1]]])
    ELSE SetColumn(r, term, ch)

\* the loop body for one term: ch is what the global random source produced
\* for it, a permutation of the rows (shuffle) or a row-indexed sample
PerturbTerm(r, term, shuffle, ch) ==
    IF shuffle THEN SetColumn(r, term, Permuted(Column(r, term), ch))
    ELSE SetColumn(r, term, ch)

RECURSIVE PerturbLoop(_, _, _, _, _)
PerturbLoop(r, term, last, shuffle, chs) ==
    IF term > last THEN r
    ELSE PerturbLoop(PerturbTerm(r, term, shuffle, chs[term]), term + 1, last, shuffle, chs)

\* random_ngrams(ngrams_in, vocab_size, all, dist, shuffle)
random_ngrams(vocab_size, all, dist, shuffle) ==
    /\ pc = "perturb"
    /\ rargs' = [all |-> all, dist |-> dist, shuffle |-> shuffle, vocab_size |-> vocab_size]
    /\ LET r_val == NpArray(ngrams_in)
           n     == Len(ngrams_in)
           T     == Terms(ngrams_in, all)
           Draws == IF shuffle THEN PermsOf(n)
                    ELSE [1..n -> ChoiceValues(vocab_size, dist)]
       IN  \E chs \in [T -> Draws] :
             LET out == PerturbLoop(r_val.data, 1, Cardinality(T), shuffle, chs)
             IN  /\ x_valid_r' = out
                 /\ ngrams_in' = IF r_val.fresh THEN ngrams_in ELSE out
    /\ pc' = "train"
    /\ UNCHANGED <<err, splitVars, trainVars>>

(***************************************************************************)
(* The training callbacks of main                                          *)
(***************************************************************************)
_LOG_LIK_SIZE == 100

\* a[i] raises IndexError unless -len <= i < len
PyIndexOK(a, i) == -Len(a) <= i /\ i < Len(a)

\* the validation rows (numbered from 0) that x_valid[_LOG_LIK_SIZE] hands
\* to probability_f: the one row at that index
LogLikRows(valid) == {_LOG_LIK_SIZE}

AllRows(m) == 0..(Len(m) - 1)

\* what the calls into the model can do during one step: all succeed, or
\* the named one raises
ModelOutcomes == {"ok", "train_step", "probability", "unnp"}

\* mnb_callback(lrbm, epoch, mnb); a series entry records the rows the
\* value was computed over
mnb_callback(outcome) ==
    IF (mnb % 10) # 9
    THEN UNCHANGED <<x_valid_ll, x_valid_ll_ratio, err>>
    ELSE IF ~PyIndexOK(x_valid, _LOG_LIK_SIZE)
    THEN /\ err' = "IndexError"
         /\ UNCHANGED <<x_valid_ll, x_valid_ll_ratio>>
    ELSE IF outcome = "probability"
    THEN /\ err' = "ModelFailure"
         /\ UNCHANGED <<x_valid_ll, x_valid_ll_ratio>>
    ELSE /\ x_valid_ll' = Append(x_valid_ll, LogLikRows(x_valid))
         /\ IF outcome = "unnp"
            THEN /\ err' = "ModelFailure"
                 /\ UNCHANGED x_valid_ll_ratio
            ELSE /\ x_valid_ll_ratio' = Append(x_valid_ll_ratio,
                        [valid |-> AllRows(x_valid), control |-> AllRows(x_valid_r)])
                 /\ UNCHANGED err

\* an argmax that takes the last index of the maximum
ArgMaxLast(s) ==
    (CHOOSE i \in 1..Len(s) :
        /\ \A j \in 1..Len(s) : s[j] <= s[i]
        /\ \A j \in (i + 1)..Len(s) : s[j] < s[i]) - 1

\* np.argmax of a non-empty list: the first index (from 0) of the maximum
ArgMax(s) ==
    (CHOOSE i \in 1..Len(s) :
        /\ \A j \in 1..Len(s) : s[j] <= s[i]
        /\ \A j \in 1..(i - 1) : s[j] < s[i]) - 1

\* (np.array(predictions) == answers).mean(), kept as a fraction; the mean
\* of an empty array is nan, written den = 0
Accuracy(preds, ans) ==
    [num |-> Cardinality({g \in 1..Len(preds) : preds[g] = ans[g]}),
     den |-> Len(preds)]

\* an epoch_callback that predicts 0 for a group without candidates
epoch_callback_skip(outcome, scores) ==
    IF outcome = "unnp" /\ \E g \in 1..Len(q_groups) : q_groups[g] > 0
    THEN /\ err' = "ModelFailure"
         /\ UNCHANGED <<sent_challenge, qg_log_lik, predictions>>
    ELSE /\ qg_log_lik' = scores
         /\ predictions' = [g \in 1..Len(scores) |->
                               IF Len(scores[g]) = 0 THEN 0 ELSE ArgMax(scores[g])]
         /\ sent_challenge' = Append(sent_challenge, Accuracy(predictions', answers))
         /\ UNCHANGED err

\* epoch_callback(lrbm, epoch); scores is what unnp_f gives for the
\* candidates of each group (np.log(unnp_f(q)).sum())
epoch_callback(outcome, scores) ==
    IF outcome = "unnp" /\ \E g \in 1..Len(q_groups) : q_groups[g] > 0
    THEN /\ err' = "ModelFailure"
         /\ UNCHANGED <<sent_challenge, qg_log_lik, predictions>>
    ELSE /\ qg_log_lik' = scores
         /\ IF \E g \in 1..Len(scores) : Len(scores[g]) = 0
            THEN /\ err' = "ValueError"
                 /\ UNCHANGED <<sent_challenge, predictions>>
            ELSE /\ predictions' = [g \in 1..Len(scores) |-> ArgMax(scores[g])]
                 /\ sent_challenge' = Append(sent_challenge, Accuracy(predictions', answers))
                 /\ UNCHANGED err

(***************************************************************************)
(* lrbm.train: the loop that drives the callbacks                          *)
(***************************************************************************)
\* minibatches per epoch
MnbCount == (Len(x_train) - 1) \div mnb_size + 1

\* one minibatch: a gradient step, then mnb_callback; the locals of the
\* epoch callback that returned before it are gone
TrainMinibatch(outcome) ==
    /\ pc = "train"
    /\ mnb < MnbCount
    /\ IF outcome = "train_step"
       THEN /\ err' = "ModelFailure"
            /\ UNCHANGED <<x_valid_ll, x_valid_ll_ratio>>
       ELSE mnb_callback(outcome)
    /\ pc' = IF err' # "none" THEN "aborted" ELSE pc
    /\ mnb' = IF err' # "none" THEN mnb ELSE mnb + 1
    /\ qg_log_lik' = <<>>
    /\ predictions' = <<>>
    /\ UNCHANGED <<splitVars, perturbVars, q_groups, answers, epochs, mnb_size,
                   epoch, sent_challenge>>

\* the scores the model can give the candidates of the groups
CandCounts == {0, 1, 2}
Scores == {-2, -1}
ScoreLists(k) == [1..k -> Scores]
GroupScores == {s \in [1..Len(q_groups) -> UNION {ScoreLists(k) : k \in CandCounts}] :
                  \A g \in 1..Len(q_groups) : Len(s[g]) = q_groups[g]}

\* the end of an epoch: epoch_callback, then the next epoch or the end
EpochBoundary(outcome, scores) ==
    /\ pc = "train"
    /\ mnb >= MnbCount
    /\ epoch_callback(outcome, scores)
    /\ pc' = IF err' # "none" THEN "aborted"
             ELSE IF epoch + 1 >= epochs THEN "done" ELSE pc
    /\ epoch' = IF err' # "none" THEN epoch ELSE epoch + 1
    /\ mnb' = IF err' # "none" THEN mnb ELSE 0
    /\ UNCHANGED <<splitVars, perturbVars, q_groups, answers, epochs, mnb_size,
                   x_valid_ll, x_valid_ll_ratio>>

(***************************************************************************)
(* Inputs                                                                  *)
(***************************************************************************)
MatricesOf(rows, cols) == [1..rows -> [1..cols -> 0..(VocabSize - 1)]]
SplitRows == {<<0>>, <<1>>}
SplitMatrices == UNION {[1..n -> SplitRows] : n \in 1..MaxRows}
PerturbCols == {1, 2}
PerturbMatrices == {<<>>} \cup UNION {MatricesOf(n, c) : n \in 1..MaxPRows, c \in PerturbCols}

Rngs == {[kind |-> "None", seed |-> 0], [kind |-> "int", seed |-> Seed],
         [kind |-> "RandomState", seed |-> 0]}
Dists == {[kind |-> "None", support |-> {}]} \cup
         {[kind |-> "p", support |-> s] : s \in (SUBSET (0..(VocabSize - 1))) \ {{}}}

NoArgs == [validation |-> 0, test |-> 0, rng |-> [kind |-> "unset", seed |-> 0]]
NoRArgs == [all |-> FALSE, dist |-> [kind |-> "None", support |-> {}],
            shuffle |-> FALSE, vocab_size |-> 0]

InitSplitVars ==
    /\ ret = <<>> /\ args = NoArgs /\ calls = 0
    /\ drawn = <<>>

InitPerturbVars == ngrams_in = <<>> /\ rargs = NoRArgs /\ x_valid_r = <<>>

InitTraces ==
    /\ epoch = 0 /\ mnb = 0
    /\ x_valid_ll = <<>> /\ x_valid_ll_ratio = <<>> /\ sent_challenge = <<>>
    /\ qg_log_lik = <<>> /\ predictions = <<>>

\* candidate groups with their answers
GroupSets ==
    UNION {{g \in [1..n -> [cands : CandCounts, answer : CandCounts]] :
              \A i \in 1..n : g[i].answer < Max(g[i].cands, 1)} : n \in 0..MaxGroups}

InitGroups(g) ==
    /\ q_groups = [i \in 1..Len(g) |-> g[i].cands]
    /\ answers = [i \in 1..Len(g) |-> g[i].answer]

(***************************************************************************)
(* dataset_split called repeatedly on one matrix                           *)
(***************************************************************************)
InitSplit ==
    /\ pc = "split" /\ err = "none"
    /\ x \in SplitMatrices
    /\ InitSplitVars /\ InitPerturbVars /\ InitTraces
    /\ InitGroups(<<>>) /\ epochs = 1 /\ mnb_size = 1

\* a call on a matrix as loaded
FirstCall ==
    /\ calls = 0
    /\ \E vn, tn \in FracNums : \E rng \in Rngs : dataset_split(vn, tn, rng)

\* a call on the matrix a first call has returned from
SecondCall ==
    /\ calls = 1
    /\ \E vn, tn \in FracNums : \E rng \in Rngs : dataset_split(vn, tn, rng)

NextSplit == FirstCall \/ SecondCall

SpecSplit == InitSplit /\ [][NextSplit]_vars

(***************************************************************************)
(* The split indices as a function of the row count                        *)
(***************************************************************************)
CutSizes == {10, 100, 1000}
CutNums == {5, 10, 30, 50, 70}

InitCut ==
    /\ pc = "cut" /\ err = "none"
    /\ x = <<>>
    /\ ret = <<>> /\ calls = 0 /\ drawn = <<>>
    /\ args \in [validation : CutNums, test : CutNums, n : CutSizes]
    /\ InitPerturbVars /\ InitTraces
    /\ InitGroups(<<>>) /\ epochs = 1 /\ mnb_size = 1

\* the asserts and the index computation of dataset_split on args.n rows
SplitSizes ==
    /\ pc = "cut"
    /\ IF ~SplitPre(Frac(args.validation), Frac(args.test))
       THEN /\ err' = "AssertionError"
            /\ pc' = "aborted"
            /\ ret' = <<>>
       ELSE /\ ret' = SplitIndices(args.n, Frac(args.validation), Frac(args.test))
            /\ pc' = "cut_done"
            /\ err' = err
    /\ UNCHANGED <<x, args, calls, drawn, perturbVars, trainVars>>

NextCut == SplitSizes

SpecCut == InitCut /\ [][NextCut]_vars

(***************************************************************************)
(* random_ngrams on every small matrix                                     *)
(***************************************************************************)
InitPerturb ==
    /\ pc = "perturb" /\ err = "none"
    /\ x = <<>> /\ InitSplitVars
    /\ ngrams_in \in PerturbMatrices
    /\ rargs = NoRArgs /\ x_valid_r = <<>>
    /\ InitTraces
    /\ InitGroups(<<>>) /\ epochs = 1 /\ mnb_size = 1

PerturbCall ==
    \E all, shuffle \in BOOLEAN : \E dist \in Dists :
        random_ngrams(VocabSize, all, dist, shuffle)

NextPerturb == PerturbCall

SpecPerturb == InitPerturb /\ [][NextPerturb]_vars

(***************************************************************************)
(* Training, from the state main has reached when it calls lrbm.train      *)
(***************************************************************************)
TrainSizes == {3, 25}
ValidSizes == {100, 101}

MainArgs == [validation |-> 5, test |-> 5, rng |-> [kind |-> "int", seed |-> Seed]]
MainDists == {d \in Dists : d.kind = "p"}

InitTrain ==
    /\ pc = "train" /\ err = "none"
    /\ \E nt \in TrainSizes, nv \in ValidSizes :
         /\ x = [i \in 1..(nt + nv + 1) |-> <<i % VocabSize>>]
         /\ ret = <<nt, nt + nv>>
    /\ args = MainArgs /\ calls = 1 /\ drawn = <<>>
    /\ ngrams_in = x_valid
    /\ rargs = [all |-> FALSE, dist |-> [kind |-> "p", support |-> {0}],
                shuffle |-> FALSE, vocab_size |-> VocabSize]
    /\ x_valid_r = SetColumn(x_valid, 1, [i \in 1..Len(x_valid) |-> 0])
    /\ \E g \in GroupSets : InitGroups(g)
    /\ epochs = MaxEpochs /\ mnb_size = 1
    /\ InitTraces

Minibatch == \E outcome \in ModelOutcomes : TrainMinibatch(outcome)

EpochEnd == \E outcome \in {"ok", "unnp"} : \E scores \in GroupScores : EpochBoundary(outcome, scores)

NextTrain == Minibatch \/ EpochEnd

SpecTrain == InitTrain /\ [][NextTrain]_vars

(***************************************************************************)
(* main: split, control set, the call of lrbm.train                        *)
(***************************************************************************)
Init ==
    /\ pc = "split" /\ err = "none"
    /\ x \in SplitMatrices
    /\ InitSplitVars /\ InitPerturbVars /\ InitTraces
    /\ InitGroups(<<[cands |-> 2, answer |-> 0]>>) /\ epochs = 1 /\ mnb_size = 1

\* x_train, x_valid, x_test = dataset_split(ngrams, ..., rng=12345)
MainSplit ==
    /\ calls = 0
    /\ \E vn, tn \in FracNums : dataset_split(vn, tn, MainArgs.rng)

\* the unigram distribution is built and x_valid is handed to random_ngrams
MainUnigrams ==
    /\ pc = "split" /\ calls = 1 /\ err = "none"
    /\ pc' = "perturb"
    /\ ngrams_in' = x_valid
    /\ UNCHANGED <<err, splitVars, rargs, x_valid_r, trainVars>>

\* x_valid_r = random_ngrams(x_valid, vocab_size, False, unigrams_dist)
MainPerturb == \E dist \in MainDists : random_ngrams(VocabSize, FALSE, dist, FALSE)

\* lrbm.train(x_train, x_valid, mnb_size, epochs, eps, alpha) is called
MainTrain ==
    /\ pc = "train" /\ calls = 1 /\ err = "none"
    /\ pc' = "training"
    /\ UNCHANGED <<err, splitVars, perturbVars, trainVars>>

Next == MainSplit \/ MainUnigrams \/ MainPerturb \/ MainTrain

Spec == Init /\ [][Next]_vars

(***************************************************************************)
(* Properties                                                              *)
(***************************************************************************)
\* the preconditions on the fractions vn/FracDen and tn/FracDen
PreExact(vn, tn) == vn > 0 /\ tn > 0 /\ vn + tn < FracDen

RowCount(s, r) == Cardinality({i \in 1..Len(s) : s[i] = r})
RowsOf(s) == {s[i] : i \in 1..Len(s)}
SameRows(a, b) ==
    /\ Len(a) = Len(b)
    /\ \A r \in RowsOf(a) \cup RowsOf(b) : RowCount(a, r) = RowCount(b, r)

\* a step that is a call of dataset_split
IsSplitCall == calls' = calls + 1

\* C1: a call with valid fractions returns three slices whose lengths add
\* up to the number of rows, whose rows together are the rows the matrix
\* had before the call (as a multiset), and which share no row: laid end to
\* end they are the matrix as the call left it.
C1_PartitionComplete ==
    [][(IsSplitCall /\ PreExact(args'.validation, args'.test)) =>
          /\ err' = "none"
          /\ Len(x_train') + Len(x_valid') + Len(x_test') = Len(x)
          /\ SameRows(x_train' \o x_valid' \o x_test', x)
          /\ x_train' \o x_valid' \o x_test' = x']_vars

C1_Witness ==
    /\ calls > 0 /\ err = "none"
    /\ Len(x_train) > 0 /\ Len(x_valid) > 0 /\ Len(x_test) > 0
    /\ x[1] # x[Len(x)]

\* C2: the cut indices are floor(N*(1 - validation - test)) and
\* floor(N*(1 - test)); for N = 1000 and 0.05, 0.05 that is 900 and 950,
\* so 900 / 50 / 50 rows.
C2_CutIndices ==
    pc = "cut_done" =>
        /\ ret[1] = (args.n * (FracDen - args.validation - args.test)) \div FracDen
        /\ ret[2] = (args.n * (FracDen - args.test)) \div FracDen

\* C3: a call with the same fractions and the same integer seed as the
\* call before it, on the same matrix, returns the same three row sequences
\* as that call did.
C3_SameSeedSameSplit ==
    [][(IsSplitCall /\ calls >= 1 /\ args' = args /\ args.rng.kind = "int"
            /\ err = "none" /\ err' = "none") =>
          <<x_train', x_valid', x_test'>> = <<x_train, x_valid, x_test>>]_vars

\* the failure the asserts of dataset_split raise
InvalidSplitFraction == "AssertionError"

NoTraining ==
    /\ pc \notin {"train", "training"}
    /\ epoch = 0 /\ mnb = 0 /\ x_valid_r = <<>>
    /\ x_valid_ll = <<>> /\ x_valid_ll_ratio = <<>> /\ sent_challenge = <<>>

\* C4: a call whose fractions violate the precondition fails before the
\* shuffle: nothing is returned, the matrix keeps its row order, the run is
\* aborted with nothing trained, and nothing happens after it.
C4_InvalidFractionAborts ==
    [][/\ (IsSplitCall /\ ~PreExact(args'.validation, args'.test)) =>
              /\ err' = InvalidSplitFraction
              /\ pc' = "aborted"
              /\ ret' = <<>>
              /\ x' = x
              /\ NoTraining'
       /\ err = InvalidSplitFraction => UNCHANGED vars]_vars

C4_Witness ==
    /\ err = InvalidSplitFraction /\ pc = "aborted"
    /\ Len(x) >= 2 /\ x[1] # x[2]
    /\ args.validation > 0 /\ args.test > 0

\* a step that is a call of random_ngrams
IsPerturbCall == pc = "perturb" /\ pc' = "train"

\* C5: random_ngrams returns a matrix of the shape of its input and leaves
\* the input as it was; with all=False the columns after the first are
\* those of the input.
C5_ShapeAndFrame ==
    [][IsPerturbCall =>
          /\ ngrams_in' = ngrams_in
          /\ Len(x_valid_r') = Len(ngrams_in)
          /\ \A i \in 1..Len(ngrams_in) : Len(x_valid_r'[i]) = Len(ngrams_in[i])
          /\ ~rargs'.all =>
                \A i \in 1..Len(ngrams_in) : \A c \in 2..Len(ngrams_in[i]) :
                    x_valid_r'[i][c] = ngrams_in[i][c]]_vars

C5_Witness ==
    /\ pc = "train" /\ ~rargs.all /\ ~rargs.shuffle
    /\ Len(ngrams_in) = 2 /\ NCols(ngrams_in) = 2
    /\ x_valid_r # ngrams_in

\* C6: with shuffle=True every targeted column of the result holds every
\* vocabulary index as often as the same column of the input.
C6_ShuffleKeepsHistogram ==
    [][(IsPerturbCall /\ rargs'.shuffle) =>
          \A c \in Terms(ngrams_in, rargs'.all) : \A v \in 0..(VocabSize - 1) :
              RowCount(Column(x_valid_r', c), v) = RowCount(Column(ngrams_in, c), v)]_vars

C6_Witness ==
    /\ pc = "train" /\ rargs.shuffle /\ rargs.all
    /\ NCols(ngrams_in) = 2
    /\ Column(x_valid_r, 1) # Column(ngrams_in, 1)
    /\ Column(x_valid_r, 2) # Column(ngrams_in, 2)

\* a step that is a minibatch, a step that is the end of an epoch
IsMinibatch == pc = "train" /\ mnb < MnbCount
IsEpochEnd == pc = "train" /\ mnb >= MnbCount

\* C7: a minibatch with mnb mod 10 = 9 adds one entry to each of the two
\* series (unless the model itself fails), any other minibatch adds none,
\* and the two series are of equal length after every minibatch.
C7_DecimationCadence ==
    [][IsMinibatch =>
          /\ ((mnb % 10) = 9 /\ err' # "ModelFailure") =>
                /\ Len(x_valid_ll') = Len(x_valid_ll) + 1
                /\ Len(x_valid_ll_ratio') = Len(x_valid_ll_ratio) + 1
          /\ (mnb % 10) # 9 => UNCHANGED <<x_valid_ll, x_valid_ll_ratio>>
          /\ Len(x_valid_ll') = Len(x_valid_ll_ratio')]_vars

\* k is the lowest index (from 0) among the maximal scores of s
LowestMax(s, k) ==
    /\ k + 1 \in 1..Len(s)
    /\ \A j \in 1..Len(s) : s[j] <= s[k + 1]
    /\ \A j \in 1..k : s[j] # s[k + 1]

Correct(preds) == Cardinality({g \in 1..Len(preds) : preds[g] = answers[g]})
Last(s) == s[Len(s)]

\* what C8 says of an epoch callback that completes, but for the range
EpochAppends ==
    /\ Len(sent_challenge') = Len(sent_challenge) + 1
    /\ Len(predictions') = Len(q_groups)
    /\ \A g \in 1..Len(q_groups) :
          /\ LowestMax(qg_log_lik'[g], predictions'[g])
          /\ (Len(qg_log_lik'[g]) = 2 /\ qg_log_lik'[g][1] = qg_log_lik'[g][2])
                => predictions'[g] = 0
    /\ Last(sent_challenge').num = Correct(predictions')
    /\ Last(sent_challenge').den = Len(q_groups)

InUnitInterval(a) == a.den > 0 /\ 0 <= a.num /\ a.num <= a.den

\* C8 as stated: an epoch callback that completes predicts the lowest index
\* of the maximal score in every group and appends one value, correct
\* predictions / groups, which lies in [0,1].
C8_AccuracyInUnitInterval ==
    [][(IsEpochEnd /\ err' = "none") =>
          EpochAppends /\ InUnitInterval(Last(sent_challenge'))]_vars

\* C8 amended: the same, the value lying in [0,1] when there is at least
\* one candidate group (with none it is nan).
C8_Accuracy ==
    [][(IsEpochEnd /\ err' = "none") =>
          /\ EpochAppends
          /\ Len(q_groups) >= 1 => InUnitInterval(Last(sent_challenge'))]_vars

C8_Witness ==
    /\ Len(sent_challenge) = 2 /\ Len(q_groups) = 2
    /\ qg_log_lik[1] = <<-1, -1>> /\ predictions[1] = 0
    /\ Len(qg_log_lik[2]) = 2 /\ predictions[2] = 1
    /\ Last(sent_challenge).num = 1

\* the failure np.argmax raises for an empty list
EmptyCandidateGroup == "ValueError"

\* C9: an epoch callback over groups one of which has no candidate fails
\* (with EmptyCandidateGroup unless the model failed first), appends no
\* accuracy value and ends the run.
C9_EmptyGroupFails ==
    [][(IsEpochEnd /\ \E g \in 1..Len(q_groups) : q_groups[g] = 0) =>
          /\ err' \in {EmptyCandidateGroup, "ModelFailure"}
          /\ sent_challenge' = sent_challenge
          /\ pc' = "aborted"]_vars

C9_Witness ==
    /\ err = EmptyCandidateGroup /\ pc = "aborted"
    /\ Len(q_groups) = 2 /\ q_groups[1] = 2 /\ q_groups[2] = 0
    /\ sent_challenge = <<>>

\* C10: every held-out log-likelihood entry is taken over the first
\* _LOG_LIK_SIZE validation rows (all of them when there are fewer), every
\* ratio entry over all rows of the validation set and of the control set.
C10_LogLikPrefix ==
    /\ \A k \in 1..Len(x_valid_ll) :
          x_valid_ll[k] = 0..(Min(_LOG_LIK_SIZE, Len(x_valid)) - 1)
    /\ \A k \in 1..Len(x_valid_ll_ratio) :
          /\ x_valid_ll_ratio[k].valid = AllRows(x_valid)
          /\ x_valid_ll_ratio[k].control = AllRows(x_valid_r)

====
